---- MODULE Spec2Model ----
(***************************************************************************)
(* Model of src/app.py: a Streamlit page that sends text to an LLM         *)
(* provider, builds a networkx graph from the returned JSON object and     *)
(* renders it with pyvis.                                                  *)
(*                                                                         *)
(* Encoding of Python values:                                              *)
(*   - a dict is a function whose DOMAIN is the set of keys present;       *)
(*   - a list is a sequence; a str is a string; text typed by the user is  *)
(*     the sequence of its Unicode code points, so that str.strip() can be *)
(*     computed on every character;                                        *)
(*   - None is the reserved string NoneVal.                                *)
(* The graph of networkx (nx.Graph) is a record: nodes in insertion order, *)
(* node attributes as functions over (a subset of) the nodes, and edges as *)
(* a function from the unordered endpoint pair {u, v} ({u} for a           *)
(* self-loop) to the edge's attribute dict.  The constant 'font' attribute *)
(* of app.py:133-140 is the same for every node and is left out.           *)
(***************************************************************************)
EXTENDS Integers, Sequences, FiniteSets, TLC

VARIABLES
    secrets,      \* st.secrets, a dict
    environ,      \* os.environ, a dict
    sidebar_key,  \* value of the sidebar text_input widget
    text_input,   \* value of the text_area widget (sequence of code points)
    api_key,      \* main's local api_key of the current script run
    pc,           \* position of the script run
    data,         \* main's local data: [kind |-> "unset" | "None" | "dict", val |-> dict]
    graph,        \* main's local nx_graph
    communities,  \* create_networkx_graph's local: outcome of community detection
    display,      \* elements on the page after / during the current script run
    metrics,      \* values of the two st.metric elements
    calls,        \* components invoked by the current script run, in order
    requests,     \* HTTP requests the client has sent in the current script run
    tmp_files     \* number of files the process has left in the temp directory

vars == <<secrets, environ, sidebar_key, text_input, api_key, pc, data, graph,
          communities, display, metrics, calls, requests, tmp_files>>

----------------------------------------------------------------------------
(* Bounds of the model *)

MaxConcepts == 2
MaxRels == 2
MaxWide == 7
MaxShellItems == 1
MaxText == 2
MaxFiles == 2

----------------------------------------------------------------------------
(* Python helpers *)

NoneVal == "<None>"

\* Python truthiness of an Optional[str]: None and "" are falsy.
Truthy(v) == v # NoneVal /\ v # ""

\* dict.get(k, default)
Get(d, k, default) == IF k \in DOMAIN d THEN d[k] ELSE default

SeqsUpTo(S, n) == UNION {[1..k -> S] : k \in 0..n}

Range(s) == {s[i] : i \in DOMAIN s}

\* The characters str.strip() removes, those for which str.isspace() holds,
\* as code points: U+0009..U+000D, U+001C..U+001F, U+0020, U+0085, U+00A0,
\* U+1680, U+2000..U+200A, U+2028, U+2029, U+202F, U+205F and U+3000.
Whitespace ==
    (9..13) \cup (28..31) \cup {32, 133, 160, 5760} \cup (8192..8202)
        \cup {8232, 8233, 8239, 8287, 12288}

RECURSIVE LStrip(_)
\* str.lstrip()
LStrip(t) == IF t # <<>> /\ Head(t) \in Whitespace THEN LStrip(Tail(t)) ELSE t

RECURSIVE RStrip(_)
\* str.rstrip()
RStrip(t) ==
    IF t # <<>> /\ t[Len(t)] \in Whitespace
    THEN RStrip(SubSeq(t, 1, Len(t) - 1))
    ELSE t

RECURSIVE StripSpacesOnly(_)
StripSpacesOnly(t) ==
    IF t # <<>> /\ Head(t) = 32 THEN StripSpacesOnly(Tail(t))
    ELSE IF t # <<>> /\ t[Len(t)] = 32 THEN StripSpacesOnly(SubSeq(t, 1, Len(t) - 1))
    ELSE t

\* str.strip()
Strip(t) == RStrip(LStrip(t))

----------------------------------------------------------------------------
(* Graph construction: create_networkx_graph, app.py:88-142 *)

DefaultColor == "#97c2fc"

colors == <<"#FF5733", "#33FF57", "#3357FF", "#F333FF", "#33FFF5", "#FFFF33">>

\* nx.Graph()
EmptyGraph ==
    [nodes |-> <<>>, title |-> <<>>, edges |-> <<>>, size |-> <<>>, color |-> <<>>]

NodeSet(G) == Range(G.nodes)

EnsureNode(G, n) ==
    IF n \in NodeSet(G) THEN G ELSE [G EXCEPT !.nodes = Append(@, n)]

\* G.add_node(concept, title=concept)
add_node(G, concept) ==
    [EnsureNode(G, concept) EXCEPT !.title = (concept :> concept) @@ @]

add_edge_keep_first(G, source, target, relationship) ==
    LET G2 == EnsureNode(EnsureNode(G, source), target)
        e  == {source, target}
    IN  IF e \in DOMAIN G.edges THEN G2
        ELSE [G2 EXCEPT !.edges = (e :> [title |-> relationship, label |-> relationship]) @@ @]

add_edge_no_implicit(G, source, target, relationship) ==
    IF {source, target} \subseteq NodeSet(G)
    THEN [G EXCEPT !.edges = ({source, target} :> [title |-> relationship, label |-> relationship]) @@ @]
    ELSE G

add_edge_no_label(G, source, target, relationship) ==
    LET G2 == EnsureNode(EnsureNode(G, source), target)
    IN  [G2 EXCEPT !.edges = ({source, target} :> [title |-> relationship, label |-> ""]) @@ @]

\* G.add_edge(source, target, title=relationship, label=relationship):
\* creates missing endpoints, and creates the edge between the unordered pair
\* or updates the attributes of the one that is there.
add_edge(G, source, target, relationship) ==
    LET G2 == EnsureNode(EnsureNode(G, source), target)
    IN  [G2 EXCEPT !.edges =
            ({source, target} :> [title |-> relationship, label |-> relationship]) @@ @]

\* for concept in data.get("concepts", []): G.add_node(...)
RECURSIVE AddNodes(_, _)
AddNodes(G, concepts) ==
    IF concepts = <<>> THEN G
    ELSE AddNodes(add_node(G, Head(concepts)), Tail(concepts))

\* body of the loop over data.get("relationships", [])
AddRel(G, rel) ==
    LET source       == Get(rel, "source", NoneVal)
        target       == Get(rel, "target", NoneVal)
        relationship == Get(rel, "relationship", "")
    IN  IF Truthy(source) /\ Truthy(target)
        THEN add_edge(G, source, target, relationship)
        ELSE G

RECURSIVE AddEdges(_, _)
AddEdges(G, rels) ==
    IF rels = <<>> THEN G
    ELSE AddEdges(AddRel(G, Head(rels)), Tail(rels))

degree_loop_once(G, n) == Cardinality({e \in DOMAIN G.edges : n \in e})
\* G.degree()[n]: the edges incident to n, a self-loop counted twice.
degree(G, n) ==
    Cardinality({e \in DOMAIN G.edges : n \in e})
        + (IF {n} \in DOMAIN G.edges THEN 1 ELSE 0)

\* Ordered partitions of a set of nodes.
RECURSIVE OrderedPartitions(_)
OrderedPartitions(S) ==
    IF S = {} THEN {<<>>}
    ELSE UNION {{<<B>> \o p : p \in OrderedPartitions(S \ B)} : B \in (SUBSET S) \ {{}}}

Raised == [raised |-> TRUE, comms |-> <<>>]

\* community.greedy_modularity_communities(G), a library call.  It either
\* raises or returns a list of communities that partitions the nodes.  On a
\* graph without edges a release either divides by the zero edge count
\* (raises) or returns one singleton per node in node order; on a graph with
\* edges the partition and its order are the library's choice.
greedy_modularity_communities(G) ==
    {Raised} \cup
    {[raised |-> FALSE, comms |-> p] :
        p \in IF DOMAIN G.edges = {}
              THEN {[i \in 1..Len(G.nodes) |-> {G.nodes[i]}]}
              ELSE OrderedPartitions(NodeSet(G))}

palette_no_wrap(i) == colors[IF i < Len(colors) THEN i + 1 ELSE Len(colors)]
\* colors[i % len(colors)], i counted from 0
palette(i) == colors[(i % Len(colors)) + 1]

\* node_colors after the try/except of app.py:110-124
NodeColors(G, outcome) ==
    IF outcome.raised
    THEN [node \in NodeSet(G) |-> DefaultColor]
    ELSE LET comms   == outcome.comms
             covered == UNION Range(comms)
             last(node) == CHOOSE i \in DOMAIN comms :
                              /\ node \in comms[i]
                              /\ \A j \in DOMAIN comms : node \in comms[j] => j <= i
         IN  [node \in covered |-> palette(last(node) - 1)]

node_size_flat(d) == 20 + d
\* size = 20 + (degrees[node] * 5)
node_size(d) == 20 + (d * 5)

\* the graph after the two insertion loops, app.py:92-104
graph_topology(d) ==
    AddEdges(AddNodes(EmptyGraph, Get(d, "concepts", <<>>)),
             Get(d, "relationships", <<>>))

\* the returned graph, given the outcome of the community detection call
create_networkx_graph(d, outcome) ==
    LET G           == graph_topology(d)
        degrees     == [node \in NodeSet(G) |-> degree(G, node)]
        node_colors == NodeColors(G, outcome)
    IN  [G EXCEPT !.size  = [node \in NodeSet(G) |-> node_size(degrees[node])],
                  !.color = [node \in NodeSet(G) |-> Get(node_colors, node, DefaultColor)]]

----------------------------------------------------------------------------
(* Inputs: what the provider can return.  A response body that parses is a  *)
(* JSON object with any of the keys "concepts" and "relationships".         *)

ConceptNames == {"A", "C"}
Endpoints == {"A", "B"}
Labels == {"uses", "implies"}
WideNames == <<"A", "B", "C", "D", "E", "F", "G", "H", "I", "J">>

RelKeys == {"source", "target", "relationship"}

\* relationship objects with every key present and both endpoints non-empty
FullRels == [source : Endpoints, target : Endpoints, relationship : Labels]

\* relationship objects with an empty source or target
EmptyEndRels ==
    {[source |-> st[1], target |-> st[2], relationship |-> "uses"] :
        st \in {<<"", "A">>, <<"B", "">>, <<"", "">>}}

\* relationship objects with one key missing
PartialRels ==
    {[k \in RelKeys \ {missing} |-> [source |-> "A", target |-> "B", relationship |-> "uses"][k]] :
        missing \in RelKeys}

RelDicts == FullRels \cup EmptyEndRels \cup PartialRels

ShellRels ==
    {r \in FullRels \cup EmptyEndRels : r.source # "B" /\ r.relationship = "uses"}

\* JSON objects over the given lists of concepts and of relationships,
\* each key present or absent.
DataDicts(cs, rs) ==
    {("concepts" :> c) @@ ("relationships" :> r) : c \in cs, r \in rs}
        \cup {("concepts" :> c) : c \in cs}
        \cup {("relationships" :> r) : r \in rs}
        \cup {<<>>}

\* many declared concepts and no relationship
WideDicts ==
    {("concepts" :> SubSeq(WideNames, 1, k)) @@ ("relationships" :> <<>>) : k \in 0..MaxWide}

BuilderInputs ==
    DataDicts(SeqsUpTo(ConceptNames, MaxConcepts), SeqsUpTo(RelDicts, MaxRels))
        \cup WideDicts

ProviderObjects ==
    DataDicts(SeqsUpTo(ConceptNames, MaxShellItems), SeqsUpTo(ShellRels, MaxShellItems))

----------------------------------------------------------------------------
(* The builder alone: create_networkx_graph applied to every input *)

NoData == [kind |-> "unset", val |-> <<>>]
NoMetrics == [concepts |-> 0, connections |-> 0]
NoOutcome == [raised |-> FALSE, comms |-> <<>>]

InitBuilder ==
    /\ secrets = <<>>
    /\ environ = <<>>
    /\ sidebar_key = ""
    /\ text_input = <<>>
    /\ api_key = ""
    /\ pc = "builder_input"
    /\ data \in {[kind |-> "dict", val |-> d] : d \in BuilderInputs}
    /\ graph = EmptyGraph
    /\ communities = NoOutcome
    /\ display = {}
    /\ metrics = NoMetrics
    /\ calls = <<>>
    /\ requests = 0
    /\ tmp_files = 0

CallBuilder ==
    /\ pc = "builder_input"
    /\ \E outcome \in greedy_modularity_communities(graph_topology(data.val)) :
          /\ communities' = outcome
          /\ graph' = create_networkx_graph(data.val, outcome)
    /\ pc' = "builder_done"
    /\ calls' = Append(calls, "build")
    /\ UNCHANGED <<secrets, environ, sidebar_key, text_input, api_key, data,
                   display, metrics, requests, tmp_files>>

NextBuilder == CallBuilder

SpecBuilder == InitBuilder /\ [][NextBuilder]_vars

----------------------------------------------------------------------------
(* The page: main, app.py:209-242, run by Streamlit from the top on every   *)
(* interaction with a widget.                                               *)

KeyName == "GROQ_API_KEY"

\* api_key after steps 1 and 2 of get_groq_api_key (secrets, then environment)
ConfiguredKey(s, e) ==
    LET k1 == IF KeyName \in DOMAIN s THEN s[KeyName] ELSE NoneVal
    IN  IF ~Truthy(k1) THEN Get(e, KeyName, NoneVal) ELSE k1

\* get_groq_api_key(): the sidebar input is created, and its value returned,
\* only when neither the secrets nor the environment hold a key.
get_groq_api_key(s, e, typed) ==
    IF ~Truthy(ConfiguredKey(s, e)) THEN typed ELSE ConfiguredKey(s, e)

SidebarElements(s, e) ==
    IF ~Truthy(ConfiguredKey(s, e)) THEN {"sidebar_key_input"} ELSE {}

\* texts over: space, newline, ideographic space (U+3000) and the letter a
Texts == SeqsUpTo({32, 10, 12288, 97}, MaxText)

\* What one HTTP request of client.chat.completions.create can meet: a
\* connection error or timeout, a status the client re-sends on (408, 409,
\* 429, 5xx), an authentication failure (401, 403), another 4xx status, or a
\* completion whose content json.loads parses to an object or rejects.
ProviderResponses ==
    {[status |-> st, parses |-> FALSE, obj |-> <<>>] :
        st \in {"network_error", "http_retryable", "auth_error", "http_error", "ok"}}
        \cup {[status |-> "ok", parses |-> TRUE, obj |-> d] : d \in ProviderObjects}

\* Groq(api_key=api_key), app.py:51, is built with the client's default
\* max_retries: a failed request is sent again up to this many times.
DefaultMaxRetries == 2

\* the client sends the request again: the failure is one it retries and
\* `sent` requests, the failed one included, leave a retry
ShouldRetry(resp, sent) ==
    /\ resp.status \in {"network_error", "http_retryable"}
    /\ sent <= DefaultMaxRetries

\* extract_knowledge_graph: the value returned, None when the try block raised
extract_knowledge_graph(resp) ==
    IF resp.status = "ok" /\ resp.parses
    THEN [kind |-> "dict", val |-> resp.obj]
    ELSE [kind |-> "None", val |-> <<>>]

\* `if data:` -- None and the empty dict are falsy
DataTruthy(d) == d.kind = "dict" /\ DOMAIN d.val # {}

\* One run of the script from the top, up to the end of main or to the call
\* of extract_knowledge_graph.
ScriptRun(typed, text, button) ==
    LET key    == get_groq_api_key(secrets, environ, typed)
        side   == SidebarElements(secrets, environ)
    IN  /\ api_key' = key
        \* Streamlit forgets the value of a widget that a run does not create
        /\ text_input' = IF Truthy(key) THEN text ELSE <<>>
        /\ data' = NoData
        /\ graph' = EmptyGraph
        /\ communities' = NoOutcome
        /\ metrics' = NoMetrics
        /\ calls' = <<>>
        /\ requests' = 0
        /\ IF ~Truthy(key)
           THEN /\ display' = side \cup {"key_warning"}
                /\ pc' = "stopped"
           ELSE IF ~button
           THEN /\ display' = side \cup {"text_area", "button"}
                /\ pc' = "idle"
           ELSE IF Strip(text) = <<>>
           THEN /\ display' = side \cup {"text_area", "button", "text_warning"}
                /\ pc' = "idle"
           ELSE /\ display' = side \cup {"text_area", "button", "spinner"}
                /\ pc' = "extracting"

Init ==
    /\ secrets \in {<<>>, KeyName :> "", KeyName :> "sk"}
    /\ environ \in {<<>>, KeyName :> "ek"}
    /\ sidebar_key = ""
    /\ text_input = <<>>
    /\ api_key = get_groq_api_key(secrets, environ, "")
    /\ pc = IF Truthy(api_key) THEN "idle" ELSE "stopped"
    /\ data = NoData
    /\ graph = EmptyGraph
    /\ communities = NoOutcome
    /\ display = SidebarElements(secrets, environ)
                    \cup (IF Truthy(api_key) THEN {"text_area", "button"} ELSE {"key_warning"})
    /\ metrics = NoMetrics
    /\ calls = <<>>
    /\ requests = 0
    /\ tmp_files = 0

Waiting == pc \in {"idle", "stopped"}

\* the user types into the sidebar input
EnterApiKey ==
    /\ Waiting
    /\ "sidebar_key_input" \in display
    /\ \E k \in {"", "uk"} :
          /\ k # sidebar_key
          /\ sidebar_key' = k
          /\ ScriptRun(k, text_input, FALSE)
    /\ UNCHANGED <<secrets, environ, tmp_files>>

\* the user edits the text area
EnterText ==
    /\ Waiting
    /\ "text_area" \in display
    /\ \E t \in Texts :
          /\ t # text_input
          /\ ScriptRun(sidebar_key, t, FALSE)
    /\ UNCHANGED <<secrets, environ, sidebar_key, tmp_files>>

\* the user presses "Generate Graph"
PressButton ==
    /\ Waiting
    /\ "button" \in display
    /\ tmp_files < MaxFiles
    /\ ScriptRun(sidebar_key, text_input, TRUE)
    /\ UNCHANGED <<secrets, environ, sidebar_key, tmp_files>>

\* data = extract_knowledge_graph(text_input, api_key), app.py:228: one HTTP
\* request of the create call.  The client sends it again after a failure it
\* retries; otherwise the call returns or raises and the function returns.
Extract ==
    /\ pc = "extracting"
    /\ requests' = requests + 1
    /\ \E resp \in ProviderResponses :
          IF ShouldRetry(resp, requests')
          THEN /\ pc' = "extracting"
               /\ UNCHANGED <<data, calls, display>>
          ELSE /\ data' = extract_knowledge_graph(resp)
               /\ calls' = Append(calls, IF data'.kind = "None" THEN "extract:error"
                                                                 ELSE "extract:ok")
               /\ display' = IF data'.kind = "None" THEN display \cup {"error"}
                                                     ELSE display
               /\ pc' = "extracted"
    /\ UNCHANGED <<secrets, environ, sidebar_key, text_input, api_key, graph,
                   communities, metrics, tmp_files>>

\* `if data:` and nx_graph = create_networkx_graph(data), app.py:230-231
Build ==
    /\ pc = "extracted"
    /\ IF DataTruthy(data)
       THEN /\ \E outcome \in greedy_modularity_communities(graph_topology(data.val)) :
                  /\ communities' = outcome
                  /\ graph' = create_networkx_graph(data.val, outcome)
            /\ calls' = Append(calls, "build")
            /\ pc' = "built"
            /\ UNCHANGED <<data, display>>
       ELSE /\ pc' = "idle"
            /\ data' = NoData
            /\ display' = display \ {"spinner"}
            /\ UNCHANGED <<graph, communities, calls>>
    /\ UNCHANGED <<secrets, environ, sidebar_key, text_input, api_key, metrics,
                   requests, tmp_files>>

\* app.py:233-242; create_pyvis_graph writes the markup to a
\* NamedTemporaryFile(delete=False), reads it back and leaves the file.
Show ==
    /\ pc = "built"
    /\ IF Len(graph.nodes) > 0
       THEN /\ metrics' = [concepts    |-> Len(graph.nodes),
                           connections |-> Cardinality(DOMAIN graph.edges)]
            /\ calls' = Append(calls, "render")
            /\ tmp_files' = tmp_files + 1
            /\ display' = (display \ {"spinner"}) \cup {"metrics", "subheader", "graph"}
       ELSE /\ display' = (display \ {"spinner"}) \cup {"no_concepts"}
            /\ UNCHANGED <<metrics, calls, tmp_files>>
    /\ pc' = "idle"
    /\ data' = NoData
    /\ graph' = EmptyGraph
    /\ communities' = NoOutcome
    /\ UNCHANGED <<secrets, environ, sidebar_key, text_input, api_key, requests>>

Next ==
    \/ EnterApiKey
    \/ EnterText
    \/ PressButton
    \/ Extract
    \/ Build
    \/ Show

Spec == Init /\ [][Next]_vars

----------------------------------------------------------------------------
(* Properties of the page *)

RunOver == pc = "idle"

Extracted == \E i \in DOMAIN calls : calls[i] = "extract:ok"

ExtractFailed == \E i \in DOMAIN calls : calls[i] = "extract:error"

Results == {"metrics", "subheader", "graph", "no_concepts", "error"}

\* C1: a run whose extraction succeeded ends showing either the two metrics
\* and the rendered graph, or the "no concepts found" notice, never nothing.
C1_SuccessEndsVisibly ==
    (RunOver /\ Extracted) =>
        \/ /\ display \cap Results = {"metrics", "subheader", "graph"}
           /\ metrics.concepts > 0
        \/ display \cap Results = {"no_concepts"}

\* the part of C7 about the page: a run whose extraction failed makes one
\* call of extract_knowledge_graph, never calls the builder or the renderer,
\* and shows the error and no result
FailureShowsOnlyError ==
    /\ Cardinality({i \in DOMAIN calls : calls[i] \in {"extract:ok", "extract:error"}}) <= 1
    /\ ExtractFailed =>
          /\ calls = <<"extract:error">>
          /\ pc \in {"extracted", "idle"}
          /\ display \cap Results = {"error"}
          /\ metrics = NoMetrics
          /\ graph = EmptyGraph

\* C7: a run whose extraction failed shows the error and nothing else, never
\* calls the builder or the renderer, and its extraction sent exactly one
\* request to the provider (no retry).
C7_FailureStopsRun ==
    /\ FailureShowsOnlyError
    /\ requests <= 1
    /\ ExtractFailed => requests = 1

\* at most 1 + max_retries requests per extraction
RequestsWithinRetries == requests <= DefaultMaxRetries + 1

\* C8: the provider, the builder and the renderer run only with a non-empty
\* credential and a text that is not blank; without a credential the page
\* stops before the text area and the button exist; with a blank text (only
\* whitespace characters) the warning is shown and nothing is called.
C8_ProviderBehindBothGates ==
    /\ (calls # <<>> \/ pc \in {"extracting", "extracted", "built"}) =>
          /\ api_key \notin {"", NoneVal}
          /\ \E i \in DOMAIN text_input : text_input[i] \notin Whitespace
    /\ api_key \in {"", NoneVal} =>
          /\ pc = "stopped"
          /\ "key_warning" \in display
          /\ display \cap {"text_area", "button"} = {}
    /\ "text_warning" \in display =>
          /\ pc = "idle"
          /\ calls = <<>>
          /\ \A i \in DOMAIN text_input : text_input[i] \in Whitespace

C8_Witness ==
    /\ "text_warning" \in display
    /\ \E i \in DOMAIN text_input : text_input[i] = 12288
    /\ sidebar_key = "uk"
    /\ tmp_files > 0

\* C10: between requests nothing of an earlier request is left: no extraction
\* result, no graph and no file.
C10_NothingLeftBehind ==
    Waiting =>
        /\ data = NoData
        /\ graph = EmptyGraph
        /\ communities = NoOutcome
        /\ tmp_files = 0

----------------------------------------------------------------------------
(* Properties of the builder, stated on the input and the returned graph *)

InConcepts == Get(data.val, "concepts", <<>>)
InRels == Get(data.val, "relationships", <<>>)

\* relationships whose source and target are both present and non-empty
Kept ==
    {i \in DOMAIN InRels :
        /\ {"source", "target"} \subseteq DOMAIN InRels[i]
        /\ InRels[i]["source"] # ""
        /\ InRels[i]["target"] # ""}

PairOf(i) == {InRels[i]["source"], InRels[i]["target"]}

LabelOf(i) ==
    IF "relationship" \in DOMAIN InRels[i] THEN InRels[i]["relationship"] ELSE ""

LastOver(e) == CHOOSE i \in Kept : PairOf(i) = e /\ \A j \in Kept : PairOf(j) = e => j <= i

\* every non-empty source or target string of any relationship
AllEndpoints ==
    UNION {{InRels[i][k] : k \in {"source", "target"} \cap DOMAIN InRels[i]} :
              i \in DOMAIN InRels}
        \ {""}

Edges == DOMAIN graph.edges

Incident(n) == {e \in Edges : n \in e}

BuilderDone == pc = "builder_done"

\* C2 as stated: the nodes are the declared concepts united with every source
\* and every target of any relationship.
C2_NodesIncludeEveryEndpoint ==
    BuilderDone =>
        NodeSet(graph) = Range(InConcepts) \cup AllEndpoints

\* C2 amended: the nodes are exactly the declared concepts (duplicates
\* collapsed) united with the source and the target of every relationship
\* whose source and target are both non-empty; an endpoint of a relationship
\* that is skipped creates no node.
C2_NodesAreConceptsAndKeptEndpoints ==
    BuilderDone =>
        /\ NodeSet(graph) = Range(InConcepts) \cup UNION {PairOf(i) : i \in Kept}
        /\ Len(graph.nodes) = Cardinality(NodeSet(graph))

C2_Witness ==
    /\ BuilderDone
    /\ Len(InConcepts) > Cardinality(Range(InConcepts))
    /\ \E i \in Kept : PairOf(i) \cap Range(InConcepts) = {}
    /\ \E i \in DOMAIN InRels \ Kept :
          /\ "source" \in DOMAIN InRels[i]
          /\ InRels[i]["source"] # ""
          /\ InRels[i]["source"] \notin NodeSet(graph)

\* C3 as stated: the label of every relationship with non-empty endpoints is
\* the label of some edge.
C3_EveryLabelSurvives ==
    BuilderDone =>
        \A i \in Kept : \E e \in Edges : graph.edges[e].label = LabelOf(i)

\* C3 amended: the label of every relationship with non-empty endpoints that
\* no later such relationship over the same unordered pair follows is the
\* label of the edge between its endpoints.
C3_LastLabelSurvives ==
    BuilderDone =>
        \A i \in Kept :
            (\A j \in Kept : j > i => PairOf(j) # PairOf(i)) =>
                /\ PairOf(i) \in Edges
                /\ graph.edges[PairOf(i)].label = LabelOf(i)

C3_Witness ==
    /\ BuilderDone
    /\ \E i, j \in Kept :
          /\ i < j
          /\ PairOf(i) = PairOf(j)
          /\ InRels[i]["source"] = InRels[j]["target"]
          /\ InRels[i]["source"] # InRels[i]["target"]
          /\ LabelOf(i) # LabelOf(j)
          /\ graph.edges[PairOf(j)].label = LabelOf(j)
          /\ \A e \in Edges : graph.edges[e].label # LabelOf(i)

\* C4: one edge per distinct unordered pair of non-empty endpoints, labelled
\* by the last relationship over that pair, and no more edges than relationships.
C4_EdgesKeyedByUnorderedPair ==
    BuilderDone =>
        /\ Edges = {PairOf(i) : i \in Kept}
        /\ Cardinality(Edges) <= Len(InRels)
        /\ \A e \in Edges :
              /\ graph.edges[e].label = LabelOf(LastOver(e))
              /\ graph.edges[e].title = LabelOf(LastOver(e))

C4_Witness ==
    /\ BuilderDone
    /\ Cardinality(Edges) = 1
    /\ \E i, j \in Kept :
          /\ i < j
          /\ InRels[i]["source"] = InRels[j]["target"]
          /\ InRels[i]["target"] = InRels[j]["source"]
          /\ InRels[i]["source"] # InRels[i]["target"]
          /\ LabelOf(i) # LabelOf(j)
          /\ graph.edges[PairOf(i)].label = LabelOf(j)

\* C5 as stated: size = 20 + 5 * (number of distinct incident edges, a
\* self-loop counted once).
C5_SizeCountsLoopOnce ==
    BuilderDone =>
        \A n \in NodeSet(graph) : graph.size[n] = 20 + 5 * Cardinality(Incident(n))

\* C5 amended: size = 20 + 5 * degree, where degree is the number of distinct
\* incident edges with a self-loop counted twice; an isolated node has size 20
\* and both nodes of a single edge A-B have size 25.
C5_SizeCountsLoopTwice ==
    BuilderDone =>
        /\ DOMAIN graph.size = NodeSet(graph)
        /\ \A n \in NodeSet(graph) :
              graph.size[n] =
                  20 + 5 * (Cardinality(Incident(n) \ {{n}})
                            + (IF {n} \in Edges THEN 2 ELSE 0))
        /\ \A n \in NodeSet(graph) : Incident(n) = {} => graph.size[n] = 20
        /\ \A e \in Edges :
              (Edges = {e} /\ Cardinality(e) = 2) => \A n \in e : graph.size[n] = 25

C5_Witness ==
    /\ BuilderDone
    /\ \E n, m, k \in NodeSet(graph) :
          /\ Incident(n) = {{n}, {n, m}}
          /\ n # m
          /\ graph.size[n] = 35
          /\ graph.size[m] = 25
          /\ graph.size[k] = 20

RECURSIVE SumDegrees(_)
SumDegrees(S) ==
    IF S = {} THEN 0
    ELSE LET n == CHOOSE x \in S : TRUE
         IN  degree(graph, n) + SumDegrees(S \ {n})

\* C6 as stated: every degree is the number of distinct incident edges and the
\* degrees sum to twice the edge count.
C6_DegreeIsIncidentEdges ==
    BuilderDone =>
        /\ \A n \in NodeSet(graph) : degree(graph, n) = Cardinality(Incident(n))
        /\ SumDegrees(NodeSet(graph)) = 2 * Cardinality(Edges)

\* C6 amended: the degrees sum to twice the edge count for every input, and
\* a node's degree is the number of distinct edges incident to it, plus one
\* when one of them is a self-loop.
C6_Handshake ==
    BuilderDone =>
        /\ SumDegrees(NodeSet(graph)) = 2 * Cardinality(Edges)
        /\ \A n \in NodeSet(graph) :
              /\ {n} \notin Edges => degree(graph, n) = Cardinality(Incident(n))
              /\ {n} \in Edges => degree(graph, n) = Cardinality(Incident(n)) + 1
              /\ graph.size[n] = 20 + 5 * degree(graph, n)

C6_Witness ==
    /\ BuilderDone
    /\ Cardinality(Edges) = 2
    /\ \E n \in NodeSet(graph) : {n} \in Edges /\ Cardinality(Incident(n)) = 2
    /\ SumDegrees(NodeSet(graph)) = 4

\* C9: every node has a colour; the nodes of the i-th community returned
\* (counted from 0) have the palette entry i mod 6; when the detection raises,
\* every node has the default colour.
C9_Colouring ==
    BuilderDone =>
        /\ DOMAIN graph.color = NodeSet(graph)
        /\ communities.raised =>
              \A n \in NodeSet(graph) : graph.color[n] = "#97c2fc"
        /\ ~communities.raised =>
              \A i \in DOMAIN communities.comms : \A n \in communities.comms[i] :
                  graph.color[n] = colors[((i - 1) % 6) + 1]

C9_Witness ==
    /\ BuilderDone
    /\ ~communities.raised
    /\ Len(communities.comms) >= 7
    /\ \E n \in communities.comms[1], m \in communities.comms[7] :
          /\ n # m
          /\ graph.color[n] = "#FF5733"
          /\ graph.color[m] = "#FF5733"

====
